---------------------------- MODULE Spec2Model ----------------------------
(***************************************************************************)
(* Model of the gesture-to-force engine of MagicHands (processResults and  *)
(* the functions it calls): velocity histories, throw detection, the       *)
(* magic-ball collection, the touch synthesis and the effect generators.   *)
(*                                                                         *)
(* Numbers.  The program computes in IEEE doubles.  The model computes in  *)
(* fixed point: a normalized coordinate or a velocity component is an      *)
(* integer count of 1/Scale units (0.5 is 500), a page coordinate is a     *)
(* whole CSS pixel, a time is a whole millisecond (Date.now()).  A product *)
(* with a fractional constant and a quotient are rounded toward zero       *)
(* (Div).  Colours (Math.random) reach no decision of the program and are  *)
(* left out of the impulse records.                                        *)
(***************************************************************************)
EXTENDS Integers, Sequences, FiniteSets

VARIABLES
    now,                \* Date.now() of the last frame, ms since the page loaded
    leftHandHistory,    \* HandVelocity[] of the left hand
    rightHandHistory,   \* HandVelocity[] of the right hand
    magicBalls,         \* MagicBall[]
    previousTouches,    \* the touches of the previous frame; <<>> also stands for undefined
    hands,              \* the hand data processResults was called with (last frame)
    calls,              \* the generators and surface methods invoked, in order (last frame)
    splats,             \* the createSplat calls, in order (last frame)
    thumbs,             \* what the Thumb_Up blocks did for each hand (last frame)
    engine,             \* what updateMagicBalls did (last frame)
    tick,               \* number of frames processed
    nextId,             \* number of magic balls constructed so far
    mode,               \* environment: what the user is doing (scripted sessions)
    switches,           \* environment: how often the user changed mode
    fluidSimulation,    \* environment: the methods the force-field surface provides
    touchRun,           \* per hand, over its current run of Open_Palm frames: whether a
                        \* touchstart carrying its identifier was forwarded; and whether
                        \* the run ended with the last frame
    probe               \* a conversion applied on its own: its input and its result

vars == <<now, leftHandHistory, rightHandHistory, magicBalls, previousTouches,
          hands, calls, splats, thumbs, engine, tick, nextId, mode, switches,
          fluidSimulation, touchRun, probe>>

-----------------------------------------------------------------------------
(* Arithmetic *)

Scale == 10 * 100

Max(a, b) == IF a >= b THEN a ELSE b

Min(a, b) == IF a <= b THEN a ELSE b

Abs(a) == IF a >= 0 THEN a ELSE -a

\* Quotient rounded toward zero.
Div(a, b) == IF (a >= 0) = (b > 0) THEN Abs(a) \div Abs(b) ELSE -(Abs(a) \div Abs(b))

\* Then(value, rest) is rest(value), with value computed once: a statement's
\* result held in a local (const x = ...) and used by the statements after it.
Then(value, rest(_)) == CHOOSE result \in {rest(x) : x \in {value}} : TRUE

RECURSIVE SqrtFrom(_, _)
SqrtFrom(n, r) == IF r * r <= n THEN r ELSE SqrtFrom(n, (r + n \div r) \div 2)

\* A variant that is never 0.
SqrtNeverZero(n) == IF n <= 0 THEN 1 ELSE SqrtFrom(n, Min(n, 40000))

\* Math.sqrt on a non-negative integer, rounded down.
Sqrt(n) == IF n <= 0 THEN 0 ELSE SqrtFrom(n, Min(n, 40000))

\* Math.PI in 1/Scale radians.
Pi == (355 * Scale) \div 113

\* Math.sin of an angle in 1/Scale radians, in 1/Scale units (parabolic arcs).
SinHalf(a) == (4 * a * (Pi - a)) \div ((Pi * Pi) \div Scale)

Sin(a) ==
    LET r == a % (2 * Pi)
    IN  IF r <= Pi THEN SinHalf(r) ELSE -SinHalf(r - Pi)

\* Math.cos and Math.sin of i/6 of a turn, in 1/Scale units.
Cos6(i) == <<1000, 500, -500, -1000, -500, 500>>[(i % 6) + 1]

Sin6(i) == <<0, 866, 866, 0, -866, -866>>[(i % 6) + 1]

RECURSIVE SumSeq(_)
SumSeq(s) == IF s = <<>> THEN 0 ELSE Head(s) + SumSeq(Tail(s))

-----------------------------------------------------------------------------
(* Constants of the program and of its page *)

GESTURE_MATCH == "Open_Palm"
FIST_GESTURE == "Closed_Fist"
POINTING_GESTURE == "Pointing_Up"
THUMB_UP_GESTURE == "Thumb_Up"

LEFT_HAND_EVENT_ID == -10
RIGHT_HAND_EVENT_ID == -11

VELOCITY_HISTORY_SIZE == 5
THROW_VELOCITY_THRESHOLD == 8

maxLife == 120
MaxBalls == 10

\* fluidCanvasElement.width, .height (device pixels) and window.devicePixelRatio
canvasWidth == 2000
canvasHeight == 2000
devicePixelRatio == 2

\* window.devicePixelRatio || 1
pixelRatioOf(ratio) == IF ratio = 0 THEN 1 ELSE ratio

pixelRatio == pixelRatioOf(devicePixelRatio)

\* An optional value: <<>> is undefined/null, <<v>> is v.
Undefined == <<>>

Some(v) == <<v>>

IsDefined(o) == o # <<>>

Value(o) == o[1]

\* JavaScript truthiness of a number (NaN does not arise).
Truthy(n) == n # 0

-----------------------------------------------------------------------------
(* Coordinate mapping *)

\* pageX * pixelRatio / canvas.width
normalizedXOn(pageX, ratio, width) == Div(pageX * ratio * Scale, width)

\* A variant that does not flip the Y axis.
normalizedYUnflipped(pageY, ratio, height) == Div(pageY * ratio * Scale, height)

\* 1.0 - (pageY * pixelRatio / canvas.height)
normalizedYOn(pageY, ratio, height) == Scale - Div(pageY * ratio * Scale, height)

normalizedX(pageX) == normalizedXOn(pageX, pixelRatio, canvasWidth)

normalizedY(pageY) == normalizedYOn(pageY, pixelRatio, canvasHeight)

triangleCentroid(a, b, c) ==
    [x |-> Div(a.x + b.x + c.x, 3), y |-> Div(a.y + b.y + c.y, 3)]

getHandCentroid(landmarks) ==
    IF ~IsDefined(landmarks) THEN Undefined
    ELSE LET l == Value(landmarks)
         IN  Some(triangleCentroid(l.WRIST, l.INDEX_FINGER_MCP, l.PINKY_FINGER_MCP))

\* getPageCoords on a canvas of screenWidth x screenHeight device pixels.
getPageCoordsOn(normalizedCoord, ratio, screenWidth, screenHeight) ==
    IF ~IsDefined(normalizedCoord) THEN Undefined
    ELSE LET c == Value(normalizedCoord)
         IN  Some([pageX |-> Div(c.x * screenWidth, ratio * Scale),
                   pageY |-> Div(c.y * screenHeight, ratio * Scale)])

getPageCoords(normalizedCoord) ==
    getPageCoordsOn(normalizedCoord, pixelRatio, canvasWidth, canvasHeight)

getTouch(pageX, pageY, identifier) ==
    [identifier |-> identifier, pageX |-> pageX, pageY |-> pageY]

-----------------------------------------------------------------------------
(* Velocity tracker *)

RECURSIVE ShiftDownTo(_, _)
\* while (list.length > n) list.shift()
ShiftDownTo(list, n) == IF Len(list) > n THEN ShiftDownTo(Tail(list), n) ELSE list

\* A variant that drops the newest sample (pop) where the code drops the oldest.
updateHandVelocityHistoryPop(history, coords, t) ==
    IF Len(history) >= VELOCITY_HISTORY_SIZE THEN history
    ELSE Append(history, [x |-> normalizedX(coords.pageX),
                          y |-> normalizedY(coords.pageY),
                          timestamp |-> t])

updateHandVelocityHistory(history, coords, t) ==
    ShiftDownTo(Append(history, [x |-> normalizedX(coords.pageX),
                                 y |-> normalizedY(coords.pageY),
                                 timestamp |-> t]),
                VELOCITY_HISTORY_SIZE)

\* dt > 0 && dt < 0.1, dt being (ms difference) / 1000
ReasonableDelta(ms) == ms > 0 /\ ms < 100

RECURSIVE VelocitySum(_, _)
\* The loop of detectThrowingMotion from index i (1-based: i is the later
\* sample of the pair): [vx, vy, n] are avgVx, avgVy and validSamples.
VelocitySum(history, i) ==
    IF i > Len(history) THEN [vx |-> 0, vy |-> 0, n |-> 0]
    ELSE LET rest == VelocitySum(history, i + 1)
             ms == history[i].timestamp - history[i - 1].timestamp
         IN  IF ReasonableDelta(ms)
             THEN [vx |-> rest.vx + Div((history[i].x - history[i - 1].x) * 1000, ms),
                   vy |-> rest.vy + Div((history[i].y - history[i - 1].y) * 1000, ms),
                   n |-> rest.n + 1]
             ELSE rest

\* A variant with a threshold of 5.
FastEnoughAtFive(vx, vy) ==
    vx * vx + vy * vy >= (5 * Scale) * (5 * Scale)

\* A variant that accepts a speed equal to the threshold.
FastEnoughOrEqual(vx, vy) ==
    vx * vx + vy * vy >= (THROW_VELOCITY_THRESHOLD * Scale) * (THROW_VELOCITY_THRESHOLD * Scale)

\* speed > THROW_VELOCITY_THRESHOLD, speed being sqrt(vx*vx + vy*vy): compared
\* as squares, which is exact.
FastEnough(vx, vy) ==
    vx * vx + vy * vy > (THROW_VELOCITY_THRESHOLD * Scale) * (THROW_VELOCITY_THRESHOLD * Scale)

\* A variant that lets the detection run on two samples.
MinSamplesTwo == 3 - 1

MinSamples == 3

detectThrowingMotion(history) ==
    IF Len(history) < MinSamples THEN Undefined
    ELSE LET s == VelocitySum(history, 2)
         IN  IF s.n = 0 THEN Undefined
             ELSE LET avgVx == Div(s.vx, s.n)
                      avgVy == Div(s.vy, s.n)
                  IN  IF FastEnough(avgVx, avgVy)
                      THEN Some([vx |-> avgVx, vy |-> avgVy])
                      ELSE Undefined

-----------------------------------------------------------------------------
(* Projectile engine *)

InBounds(x, y) == x >= 0 /\ x <= Scale /\ y >= 0 /\ y <= Scale

\* new MagicBall(x, y, vx, vy, color); id and born are bookkeeping of the
\* model (construction number and frame), not fields of the class.
MagicBall(x, y, vx, vy, id, born) ==
    [x |-> x, y |-> y, vx |-> vx, vy |-> vy, life |-> maxLife, id |-> id, born |-> born]

\* this.x += this.vx * 0.016
Integrate(p, v) == p + Div(v * 16, 1000)

\* this.vy += 0.5
Gravity(vy) == vy + Div(5 * Scale, 10)

\* A variant that damps the horizontal velocity without turning it round.
RestitutionNoFlip(vx) == Div(vx * 8, 10)

\* this.vx *= -0.8
Restitution(vx) == Div(vx * (-8), 10)

\* this.life--
Decay(life) == life - 1

\* A variant that turns the ball round at an edge without the clamp.
updateUnclamped(ball) ==
    LET x1 == Integrate(ball.x, ball.vx)
        y1 == Integrate(ball.y, ball.vy)
        out == x1 < 0 \/ x1 > Scale
    IN  [ball EXCEPT !.x = x1,
                     !.y = y1,
                     !.vx = IF out THEN Restitution(ball.vx) ELSE ball.vx,
                     !.vy = Gravity(ball.vy),
                     !.life = Decay(ball.life)]

\* MagicBall.update(): the ball after the call; the call returns life > 0.
update(ball) ==
    LET x1 == Integrate(ball.x, ball.vx)
        y1 == Integrate(ball.y, ball.vy)
        out == x1 < 0 \/ x1 > Scale
    IN  [ball EXCEPT !.x = IF out THEN Max(0, Min(Scale, x1)) ELSE x1,
                     !.y = y1,
                     !.vx = IF out THEN Restitution(ball.vx) ELSE ball.vx,
                     !.vy = Gravity(ball.vy),
                     !.life = Decay(ball.life)]

\* A variant that keeps a ball whose life has reached 0.
stillAliveAtZero(ball) == ball.life >= 0

stillAlive(ball) == ball.life > 0

Splat(by, x, y, dx, dy) == [by |-> by, x |-> x, y |-> y, dx |-> dx, dy |-> dy]

\* One point of the trail: i in 0..2, at i/3 of a turn, 0.01 from the ball.
TrailPoint(ball, i) ==
    [x |-> ball.x + Div(Cos6(2 * i) * 10, Scale),
     y |-> ball.y + Div(Sin6(2 * i) * 10, Scale)]

\* A variant that emits the three points of the trail without the bounds test.
createFluidEffectUnchecked(ball) ==
    [i \in 1..3 |->
       Splat("createFluidEffect", TrailPoint(ball, i - 1).x, TrailPoint(ball, i - 1).y,
             ball.vx * 20, ball.vy * 20)]

\* MagicBall.createFluidEffect(): the createSplat calls it makes.
createFluidEffect(ball) ==
    LET point(i) == TrailPoint(ball, i - 1)
        all == [i \in 1..3 |->
                  Splat("createFluidEffect", point(i).x, point(i).y,
                        ball.vx * 20, ball.vy * 20)]
    IN  SelectSeq(all, LAMBDA s : InBounds(s.x, s.y))

\* A variant that drops the newest ball (pop) where the code drops the oldest.
throwMagicBallPop(balls, handCoords, velocity, id, born) ==
    IF Len(balls) >= MaxBalls THEN balls
    ELSE Append(balls, MagicBall(normalizedX(handCoords.pageX),
                                 normalizedY(handCoords.pageY),
                                 velocity.vx, velocity.vy, id, born))

throwMagicBall(balls, handCoords, velocity, id, born) ==
    ShiftDownTo(Append(balls, MagicBall(normalizedX(handCoords.pageX),
                                        normalizedY(handCoords.pageY),
                                        velocity.vx, velocity.vy, id, born)),
                MaxBalls)

\* balls with the element at (1-based) index i removed: splice(i - 1, 1)
Splice(balls, i) == SubSeq(balls, 1, i - 1) \o SubSeq(balls, i + 1, Len(balls))

RECURSIVE UpdateDown(_, _, _, _)
\* The loop of updateMagicBalls at (1-based) index i, going down to 1.
UpdateDown(balls, i, fx, advanced) ==
    IF i < 1 THEN [balls |-> balls, splats |-> fx, advanced |-> advanced]
    ELSE LET ball == update(balls[i])
         IN  IF stillAlive(ball)
             THEN UpdateDown([balls EXCEPT ![i] = ball], i - 1,
                             fx \o createFluidEffect(ball), Append(advanced, ball.id))
             ELSE UpdateDown(Splice(balls, i), i - 1, fx, Append(advanced, ball.id))

RECURSIVE UpdateUp(_, _, _, _)
\* The same loop written from index 1 upward, i++ also after a splice.
UpdateUp(balls, i, fx, advanced) ==
    IF i > Len(balls) THEN [balls |-> balls, splats |-> fx, advanced |-> advanced]
    ELSE LET ball == update(balls[i])
         IN  IF stillAlive(ball)
             THEN UpdateUp([balls EXCEPT ![i] = ball], i + 1,
                           fx \o createFluidEffect(ball), Append(advanced, ball.id))
             ELSE UpdateUp(Splice(balls, i), i + 1, fx, Append(advanced, ball.id))

\* A variant of the pass that runs forward over the collection.
updateMagicBallsForward(balls) == UpdateUp(balls, 1, <<>>, <<>>)

\* updateMagicBalls(): the collection after the pass, the createSplat calls
\* made, and the ids of the balls whose update() was called, in order.
updateMagicBalls(balls) == UpdateDown(balls, Len(balls), <<>>, <<>>)

-----------------------------------------------------------------------------
(* Effect generators: the createSplat calls each makes, in order *)

\* a * b for two numbers in 1/Scale units
Times(a, b) == Div(a * b, Scale)

WigglyPoint(handCoords, i, t) ==
    LET centerX == normalizedX(handCoords.pageX)
        centerY == normalizedY(handCoords.pageY)
        \* time = Date.now() * 0.003; angle * 2 is i/3 of a turn
        wiggle == Times(Sin(3 * t + Div(2 * Pi * i, 3)), 8)
        radius == 40 + wiggle
        x == centerX + Times(Cos6(i), radius)
        y == centerY + Times(Sin6(i), radius)
    IN  Splat("createWigglyBall", x, y, (centerX - x) * 30, (centerY - y) * 30)

createWigglyBall(handCoords, isLeftHand, t) ==
    [i \in 1..6 |-> WigglyPoint(handCoords, i - 1, t)]

RECURSIVE UntilOutside(_)
\* The points before the first one out of bounds (the loop breaks there).
UntilOutside(points) ==
    IF points = <<>> \/ ~InBounds(Head(points).x, Head(points).y) THEN <<>>
    ELSE <<Head(points)>> \o UntilOutside(Tail(points))

createFingerRay(landmarks, handCoords, isLeftHand, t) ==
    LET tipPageCoords == Value(getPageCoords(Some(landmarks.INDEX_FINGER_TIP)))
        mcpPageCoords == Value(getPageCoords(Some(landmarks.INDEX_FINGER_MCP)))
        directionX == tipPageCoords.pageX - mcpPageCoords.pageX
        directionY == tipPageCoords.pageY - mcpPageCoords.pageY
        length == Sqrt(directionX * directionX + directionY * directionY)
    IN  IF length = 0 THEN <<>>
        ELSE LET normalizedDirX == Div(directionX * Scale, length)
                 normalizedDirY == Div(directionY * Scale, length)
                 startX == normalizedX(tipPageCoords.pageX)
                 startY == normalizedY(tipPageCoords.pageY)
                 \* rayLength 0.2, numRayPoints 2, time = Date.now() * 0.001
                 point(i) ==
                     LET distance == Div(200 * i, 2)
                         jiggleAmount == Times(Sin(t + i * Scale), 5)
                         perpX == -normalizedDirY
                         perpY == normalizedDirX
                     IN  Splat("createFingerRay",
                               startX + Div(Times(normalizedDirX, distance) * pixelRatio, canvasWidth)
                                      + Times(perpX, jiggleAmount),
                               startY - Div(Times(normalizedDirY, distance) * pixelRatio, canvasHeight)
                                      + Times(perpY, jiggleAmount),
                               normalizedDirX * 20, (-normalizedDirY) * 20)
             IN  UntilOutside([i \in 1..2 |-> point(i)])

\* One ray of createBothPointingRaysToCenter: from the hand to (0.5, 0.5);
\* phase is 0 for the left hand and Math.PI for the right one.
RayToCenter(handCoords, phase, t) ==
    LET X == normalizedX(handCoords.pageX)
        Y == normalizedY(handCoords.pageY)
        dirX == Div(Scale, 2) - X
        dirY == Div(Scale, 2) - Y
        length == Sqrt(dirX * dirX + dirY * dirY)
    IN  IF ~(length > 0) THEN <<>>
        ELSE LET normX == Div(dirX * Scale, length)
                 normY == Div(dirY * Scale, length)
                 \* numRayPoints 3, time = Date.now() * 0.002
                 point(i) ==
                     LET distance == Div(length * i, 4)
                         jiggle == Times(Sin(2 * t + i * Scale + phase), 8)
                     IN  Splat("createBothPointingRaysToCenter",
                               X + Times(normX, distance) + Times(-normY, jiggle),
                               Y + Times(normY, distance) + Times(normX, jiggle),
                               normX * 40, normY * 40)
             IN  SelectSeq([i \in 1..3 |-> point(i)], LAMBDA s : InBounds(s.x, s.y))

createBothPointingRaysToCenter(leftHandCoords, rightHandCoords, t) ==
    RayToCenter(leftHandCoords, 0, t) \o RayToCenter(rightHandCoords, Pi, t)

\* The splat of one hand at step i (0 or 1) of createBothHandsGlowEffect.
GlowPoint(handCoords, i) ==
    LET X == normalizedX(handCoords.pageX)
        Y == normalizedY(handCoords.pageY)
        centerNormX == Div(Scale, 2)
        centerNormY == Div(Scale, 2)
        \* t = (i + 1) / (numSplats + 1), numSplats 2
    IN  Splat("createBothHandsGlowEffect",
              X + Div((centerNormX - X) * (i + 1), 3),
              Y + Div((centerNormY - Y) * (i + 1), 3),
              (centerNormX - X) * 200, (centerNormY - Y) * 200)

createBothHandsGlowEffect(leftHandCoords, rightHandCoords) ==
    <<GlowPoint(leftHandCoords, 0), GlowPoint(rightHandCoords, 0),
      GlowPoint(leftHandCoords, 1), GlowPoint(rightHandCoords, 1)>>

-----------------------------------------------------------------------------
(* Touch synthesis *)

\* createTouchEvent({type, touches}): an event of that type carrying those
\* touch points.
createTouchEvent(type, touches) == [type |-> type, touches |-> touches]

\* A variant that reports a touch point that went away as a touchend.
getEventWithEnd(previous, touches) ==
    IF Len(previous) > Len(touches) THEN createTouchEvent("touchend", touches)
    ELSE IF Len(previous) # 0 /\ Len(previous) >= Len(touches)
    THEN createTouchEvent("touchmove", touches)
    ELSE createTouchEvent("touchstart", touches)

\* getEvent(touches): the event it creates.
getEvent(previous, touches) ==
    IF Len(previous) # 0 /\ Len(previous) >= Len(touches)
    THEN createTouchEvent("touchmove", touches)
    ELSE createTouchEvent("touchstart", touches)

\* The surface method the dispatcher forwards an event of this type to.
Forward(type) ==
    IF type = "touchstart" THEN <<"sendTouchStart">>
    ELSE IF type = "touchmove" THEN <<"sendTouchMove">>
    ELSE IF type = "touchend" THEN <<"sendTouchEnd">>
    ELSE <<>>

-----------------------------------------------------------------------------
(* The per-frame dispatcher *)

\* A hand of getHandData's result.  A side with no hand recognized has no
\* gesture (categoryName undefined) and no landmarks.
NoHand == [gesture |-> "undefined", landmarks |-> Undefined]

\* getPageCoords(getHandCentroid(hand.landmarks)) if the hand shows the
\* gesture, undefined otherwise.
GestureCoords(hand, gesture) ==
    IF hand.gesture = gesture THEN getPageCoords(getHandCentroid(hand.landmarks))
    ELSE Undefined

\* coords?.pageX && coords?.pageY
HasPosition(coords) ==
    IsDefined(coords) /\ Truthy(Value(coords).pageX) /\ Truthy(Value(coords).pageY)

\* The touches a hand contributes (the Open_Palm blocks).
PalmTouches(coords, identifier) ==
    IF HasPosition(coords)
    THEN <<getTouch(Value(coords).pageX, Value(coords).pageY, identifier)>>
    ELSE <<>>

\* What a Thumb_Up block did: whether it ran (the hand showed Thumb_Up and had
\* coordinates), the history before it and right after the sample was
\* recorded, the detected velocity, the ball constructed, and the collection
\* before and after the block.
Idle(history, balls) ==
    [ran |-> FALSE, before |-> history, recorded |-> history,
     velocity |-> Undefined, spawned |-> Undefined,
     ballsBefore |-> balls, ballsAfter |-> balls]

\* A variant that leaves the history as it is after a throw.
Kept(history) == history

\* history.length = 0
Cleared(history) == <<>>

\* A variant that forgets the history of a hand that does not show Thumb_Up.
ThumbUpBlockForgetful(history, balls, hand, t, id, born) ==
    LET coords == GestureCoords(hand, THUMB_UP_GESTURE)
    IN  IF ~IsDefined(coords)
        THEN [history |-> <<>>, balls |-> balls, log |-> Idle(history, balls)]
        ELSE LET recorded == updateHandVelocityHistory(history, Value(coords), t)
                 throwVelocity == detectThrowingMotion(recorded)
             IN  IF IsDefined(throwVelocity)
                 THEN LET thrown == throwMagicBall(balls, Value(coords),
                                                   Value(throwVelocity), id, born)
                      IN  [history |-> Cleared(recorded), balls |-> thrown,
                           log |-> [ran |-> TRUE, before |-> history, recorded |-> recorded,
                                    velocity |-> throwVelocity,
                                    spawned |-> Some(MagicBall(normalizedX(Value(coords).pageX),
                                                               normalizedY(Value(coords).pageY),
                                                               Value(throwVelocity).vx,
                                                               Value(throwVelocity).vy, id, born)),
                                    ballsBefore |-> balls, ballsAfter |-> thrown]]
                 ELSE [history |-> recorded, balls |-> balls,
                       log |-> [ran |-> TRUE, before |-> history, recorded |-> recorded,
                                velocity |-> Undefined, spawned |-> Undefined,
                                ballsBefore |-> balls, ballsAfter |-> balls]]

\* A variant that runs the throw detection before the frame's sample is
\* recorded.
ThumbUpBlockDetectFirst(history, balls, hand, t, id, born) ==
    LET coords == GestureCoords(hand, THUMB_UP_GESTURE)
    IN  IF ~IsDefined(coords)
        THEN [history |-> history, balls |-> balls, log |-> Idle(history, balls)]
        ELSE LET recorded == updateHandVelocityHistory(history, Value(coords), t)
                 throwVelocity == detectThrowingMotion(history)
             IN  IF IsDefined(throwVelocity)
                 THEN LET thrown == throwMagicBall(balls, Value(coords),
                                                   Value(throwVelocity), id, born)
                      IN  [history |-> Cleared(recorded), balls |-> thrown,
                           log |-> [ran |-> TRUE, before |-> history, recorded |-> recorded,
                                    velocity |-> throwVelocity,
                                    spawned |-> Some(MagicBall(normalizedX(Value(coords).pageX),
                                                               normalizedY(Value(coords).pageY),
                                                               Value(throwVelocity).vx,
                                                               Value(throwVelocity).vy, id, born)),
                                    ballsBefore |-> balls, ballsAfter |-> thrown]]
                 ELSE [history |-> recorded, balls |-> balls,
                       log |-> [ran |-> TRUE, before |-> history, recorded |-> recorded,
                                velocity |-> Undefined, spawned |-> Undefined,
                                ballsBefore |-> balls, ballsAfter |-> balls]]

\* One Thumb_Up block: the hand's history and the collection after it, and
\* what it did.
ThumbUpBlock(history, balls, hand, t, id, born) ==
    LET coords == GestureCoords(hand, THUMB_UP_GESTURE)
    IN  IF ~IsDefined(coords)
        THEN [history |-> history, balls |-> balls, log |-> Idle(history, balls)]
        ELSE LET recorded == updateHandVelocityHistory(history, Value(coords), t)
                 throwVelocity == detectThrowingMotion(recorded)
             IN  IF IsDefined(throwVelocity)
                 THEN LET thrown == throwMagicBall(balls, Value(coords),
                                                   Value(throwVelocity), id, born)
                      IN  [history |-> Cleared(recorded), balls |-> thrown,
                           log |-> [ran |-> TRUE, before |-> history, recorded |-> recorded,
                                    velocity |-> throwVelocity,
                                    spawned |-> Some(MagicBall(normalizedX(Value(coords).pageX),
                                                               normalizedY(Value(coords).pageY),
                                                               Value(throwVelocity).vx,
                                                               Value(throwVelocity).vy, id, born)),
                                    ballsBefore |-> balls, ballsAfter |-> thrown]]
                 ELSE [history |-> recorded, balls |-> balls,
                       log |-> [ran |-> TRUE, before |-> history, recorded |-> recorded,
                                velocity |-> Undefined, spawned |-> Undefined,
                                ballsBefore |-> balls, ballsAfter |-> balls]]

Call(fn, hand) == [fn |-> fn, hand |-> hand]

\* The fist blocks.
FistEffects(leftFistCoords, rightFistCoords, t) ==
    LET l == HasPosition(leftFistCoords)
        r == HasPosition(rightFistCoords)
    IN  [calls |-> (IF l THEN <<Call("createWigglyBall", "left")>> ELSE <<>>)
                   \o (IF r THEN <<Call("createWigglyBall", "right")>> ELSE <<>>),
         splats |-> (IF l THEN createWigglyBall(Value(leftFistCoords), TRUE, t) ELSE <<>>)
                   \o (IF r THEN createWigglyBall(Value(rightFistCoords), FALSE, t) ELSE <<>>)]

\* The pointing blocks.
PointingEffects(left, right, leftPointingCoords, rightPointingCoords, t) ==
    LET l == HasPosition(leftPointingCoords)
        r == HasPosition(rightPointingCoords)
        ll == l /\ IsDefined(left.landmarks)
        rr == r /\ IsDefined(right.landmarks)
    IN  IF l /\ r
        THEN [calls |-> <<Call("createBothPointingRaysToCenter", "both")>>,
              splats |-> createBothPointingRaysToCenter(Value(leftPointingCoords),
                                                        Value(rightPointingCoords), t)]
        ELSE [calls |-> (IF ll THEN <<Call("createFingerRay", "left")>> ELSE <<>>)
                        \o (IF rr THEN <<Call("createFingerRay", "right")>> ELSE <<>>),
              splats |-> (IF ll THEN createFingerRay(Value(left.landmarks),
                                                     Value(leftPointingCoords), TRUE, t)
                          ELSE <<>>)
                         \o (IF rr THEN createFingerRay(Value(right.landmarks),
                                                        Value(rightPointingCoords), FALSE, t)
                             ELSE <<>>)]

\* The open-palm block: glow for two palms, else a touch event if any touch.
PalmEffects(previous, touches, leftHandCoords, rightHandCoords) ==
    IF HasPosition(leftHandCoords) /\ HasPosition(rightHandCoords)
    THEN [calls |-> <<Call("createBothHandsGlowEffect", "both")>>,
          splats |-> createBothHandsGlowEffect(Value(leftHandCoords), Value(rightHandCoords))]
    ELSE IF Len(touches) > 0
    THEN [calls |-> [i \in 1..Len(Forward(getEvent(previous, touches).type)) |->
                        Call(Forward(getEvent(previous, touches).type)[i], "touch")],
          splats |-> <<>>]
    ELSE [calls |-> <<>>, splats |-> <<>>]

\* A variant in which the call is not optional: it throws if the surface has
\* no createSplat.
createSplatRequired(provided, attempted) ==
    [made |-> IF provided THEN attempted ELSE <<>>,
     threw |-> ~provided /\ attempted # <<>>]

\* fluidSimulation.createSplat?.(...) for the calls a generator attempts, in
\* order: the calls made, and whether a call threw a TypeError.
createSplat(provided, attempted) ==
    [made |-> IF provided THEN attempted ELSE <<>>,
     threw |-> FALSE]

RECURSIVE RunStages(_, _, _, _)
\* The generator and surface calls of a frame from stage i on, in statement
\* order; a throw ends processResults.
RunStages(stages, i, provided, done) ==
    IF i > Len(stages) \/ done.threw THEN done
    ELSE LET r == createSplat(provided, stages[i].splats)
         IN  RunStages(stages, i + 1, provided,
                       [calls |-> done.calls \o stages[i].calls,
                        splats |-> done.splats \o r.made,
                        threw |-> r.threw])

RECURSIVE ThrowingIndex(_, _)
\* The largest index at or below i whose ball, updated, survives and attempts
\* a createSplat call; 0 if there is none.
ThrowingIndex(balls, i) ==
    IF i < 1 THEN 0
    ELSE IF stillAlive(update(balls[i])) /\ createFluidEffect(update(balls[i])) # <<>>
    THEN i
    ELSE ThrowingIndex(balls, i - 1)

\* updateMagicBalls(fluidSimulation) on this surface: a throw leaves the
\* balls below the throwing one as they were.
Pass(balls, provided) ==
    LET full == updateMagicBalls(balls)
        r == createSplat(provided, full.splats)
    IN  IF ~r.threw
        THEN [balls |-> full.balls, splats |-> r.made,
              advanced |-> full.advanced, threw |-> FALSE]
        ELSE LET i == ThrowingIndex(balls, Len(balls))
                 part == updateMagicBalls(SubSeq(balls, i, Len(balls)))
             IN  [balls |-> SubSeq(balls, 1, i - 1) \o part.balls, splats |-> <<>>,
                  advanced |-> part.advanced, threw |-> TRUE]

\* processResults({results, fluidSimulation}) at time t for the hand data
\* left, right and the surface sim: the module's state after it and what it
\* did.
FrameOutcome(left, right, t, sim) ==
    LET leftHandCoords == GestureCoords(left, GESTURE_MATCH)
        rightHandCoords == GestureCoords(right, GESTURE_MATCH)
        touches == PalmTouches(leftHandCoords, LEFT_HAND_EVENT_ID)
                   \o PalmTouches(rightHandCoords, RIGHT_HAND_EVENT_ID)
        leftThumb == ThumbUpBlock(leftHandHistory, magicBalls, left, t, nextId + 1, tick + 1)
        rightThumbAfter(lt) ==
            ThumbUpBlock(rightHandHistory, lt.balls, right, t,
                         nextId + (IF IsDefined(lt.log.spawned) THEN 1 ELSE 0) + 1, tick + 1)
        leftFistCoords == GestureCoords(left, FIST_GESTURE)
        rightFistCoords == GestureCoords(right, FIST_GESTURE)
        leftPointingCoords == GestureCoords(left, POINTING_GESTURE)
        rightPointingCoords == GestureCoords(right, POINTING_GESTURE)
        dual == HasPosition(leftPointingCoords) /\ HasPosition(rightPointingCoords)
        stages ==
            <<FistEffects(leftFistCoords, Undefined, t),
              FistEffects(Undefined, rightFistCoords, t),
              IF dual
              THEN PointingEffects(left, right, leftPointingCoords, rightPointingCoords, t)
              ELSE PointingEffects(left, NoHand, leftPointingCoords, Undefined, t),
              IF dual
              THEN [calls |-> <<>>, splats |-> <<>>]
              ELSE PointingEffects(NoHand, right, Undefined, rightPointingCoords, t),
              PalmEffects(previousTouches, touches, leftHandCoords, rightHandCoords)>>
        gestures == Then(stages, LAMBDA s :
                         RunStages(s, 1, sim.createSplat,
                                   [calls |-> <<>>, splats |-> <<>>, threw |-> FALSE]))
        engineOf(thumb, g) ==
            IF g.threw
            THEN [balls |-> thumb.balls, splats |-> <<>>,
                  advanced |-> <<>>, threw |-> TRUE]
            ELSE Pass(thumb.balls, sim.createSplat)
    IN  Then(leftThumb, LAMBDA lt :
        Then(rightThumbAfter(lt), LAMBDA rt :
        Then(gestures, LAMBDA g :
        Then(engineOf(rt, g), LAMBDA pass :
            [now |-> t,
             leftHandHistory |-> lt.history,
             rightHandHistory |-> rt.history,
             magicBalls |-> pass.balls,
             previousTouches |-> IF pass.threw THEN previousTouches ELSE touches,
             calls |-> g.calls,
             splats |-> g.splats \o pass.splats,
             thumbs |-> [left |-> lt.log, right |-> rt.log],
             engine |-> [before |-> rt.balls, advanced |-> pass.advanced],
             nextId |-> nextId + (IF IsDefined(lt.log.spawned) THEN 1 ELSE 0)
                              + (IF IsDefined(rt.log.spawned) THEN 1 ELSE 0)]))))

\* No Open_Palm run: the state of a hand's run before the first frame.
NoTouchRun == [started |-> FALSE, ended |-> FALSE]

\* The run of Open_Palm frames of a hand after a frame in which the hand data
\* went from was to is, the frame's touches were touches and its calls calls.
TouchRunAfter(run, was, is, identifier, touches, made) ==
    LET palm == is.gesture = GESTURE_MATCH
        carried == \E i \in 1..Len(touches) : touches[i].identifier = identifier
        start == \E i \in 1..Len(made) : made[i] = Call("sendTouchStart", "touch")
    IN  [started |-> palm /\ (run.started \/ (start /\ carried)),
         ended |-> ~palm /\ was.gesture = GESTURE_MATCH]

\* One call of processResults, dt milliseconds after the previous one.
processResults(left, right, dt) ==
    \E after \in {FrameOutcome(left, right, now + dt, fluidSimulation)} :
        /\ now' = after.now
        /\ leftHandHistory' = after.leftHandHistory
        /\ rightHandHistory' = after.rightHandHistory
        /\ magicBalls' = after.magicBalls
        /\ previousTouches' = after.previousTouches
        /\ hands' = [left |-> left, right |-> right]
        /\ calls' = after.calls
        /\ splats' = after.splats
        /\ thumbs' = after.thumbs
        /\ engine' = after.engine
        /\ tick' = tick + 1
        /\ nextId' = after.nextId
        /\ touchRun' = [side \in {"left", "right"} |->
                          TouchRunAfter(touchRun[side], hands[side],
                                        IF side = "left" THEN left ELSE right,
                                        IF side = "left" THEN LEFT_HAND_EVENT_ID
                                        ELSE RIGHT_HAND_EVENT_ID,
                                        after.previousTouches, after.calls)]
        /\ UNCHANGED <<fluidSimulation, probe>>

\* The module's state when the page has loaded.
Loaded ==
    /\ now = 0
    /\ leftHandHistory = <<>>
    /\ rightHandHistory = <<>>
    /\ magicBalls = <<>>
    /\ previousTouches = <<>>
    /\ hands = [left |-> NoHand, right |-> NoHand]
    /\ calls = <<>>
    /\ splats = <<>>
    /\ thumbs = [left |-> Idle(<<>>, <<>>), right |-> Idle(<<>>, <<>>)]
    /\ engine = [before |-> <<>>, advanced |-> <<>>]
    /\ tick = 0
    /\ nextId = 0
    /\ touchRun = [left |-> NoTouchRun, right |-> NoTouchRun]
    /\ probe = <<>>

\* A surface with createSplat, and one without.
WebGL == [createSplat |-> TRUE]

Bare == [createSplat |-> FALSE]

-----------------------------------------------------------------------------
(* Environment: the hands the recognizer reports *)

Point(x, y) == [x |-> x, y |-> y]

\* Landmarks of a hand whose centroid (wrist, index base, pinky base) is
\* anchor and whose index finger points along dir from its base.
Landmarks(anchor, dir) ==
    [WRIST |-> Point(anchor.x, anchor.y + 30),
     INDEX_FINGER_MCP |-> Point(anchor.x - 15, anchor.y - 15),
     PINKY_FINGER_MCP |-> Point(anchor.x + 15, anchor.y - 15),
     INDEX_FINGER_TIP |-> Point(anchor.x - 15 + dir.x, anchor.y - 15 + dir.y)]

Hand(gesture, anchor, dir) == [gesture |-> gesture, landmarks |-> Some(Landmarks(anchor, dir))]

\* Milliseconds between two frames.
FrameMs == 40

Gestures == {"None", FIST_GESTURE, GESTURE_MATCH, POINTING_GESTURE, THUMB_UP_GESTURE}

Up == Point(0, -100)

Still == Point(0, 0)

\* Anchors in recognizer space (x to the right, y downward).  Left hand: on
\* the left edge (pageX = 0), near the right edge (all landmarks inside the
\* canvas).  Right hand: at the centre, on the top edge (pageY = 0).
LeftAnchors == {Point(0, 500), Point(970, 300)}

RightAnchors == {Point(500, 500), Point(300, 0)}

HandsAt(anchors) ==
    {NoHand} \cup {Hand(g, a, Up) : g \in Gestures, a \in anchors}
             \cup {Hand(POINTING_GESTURE, a, Still) : a \in anchors}

(* Free sessions: any hands in every frame, for MaxFrames frames. *)

MaxFrames == 2

Init == Loaded /\ mode = "free" /\ switches = 0 /\ fluidSimulation = WebGL

Frame ==
    /\ tick < MaxFrames
    /\ \E left \in HandsAt(LeftAnchors), right \in HandsAt(RightAnchors) :
          processResults(left, right, FrameMs)
    /\ UNCHANGED <<mode, switches>>

Next == Frame

Spec == Init /\ [][Next]_vars

(* Scripted sessions: the user is in one of a few modes, in which the hands *)
(* of a frame follow from the frame's number.                               *)

\* A coordinate that moves by 0.8 every second frame: any three consecutive
\* frames differ by 0.8 between the first and the third.
SweepPos(k) == <<100, 100, 900, 900>>[(k % 4) + 1]

\* A coordinate that moves by 0.01 back and forth.
DriftPos(k) == 300 + 10 * (k % 2)

\* The hands of frame k of a show of all gestures: a finger whose tip is on
\* its base with a fist, the same with an open palm, two pointing fingers,
\* two open palms, one open palm, a fist with a pointing finger.
ShowHands(k) ==
    <<[left |-> Hand(POINTING_GESTURE, Point(300, 400), Still),
       right |-> Hand(FIST_GESTURE, Point(700, 400), Up)],
      [left |-> Hand(POINTING_GESTURE, Point(300, 400), Still),
       right |-> Hand(GESTURE_MATCH, Point(700, 400), Up)],
      [left |-> Hand(POINTING_GESTURE, Point(300, 400), Up),
       right |-> Hand(POINTING_GESTURE, Point(700, 400), Up)],
      [left |-> Hand(GESTURE_MATCH, Point(300, 400), Up),
       right |-> Hand(GESTURE_MATCH, Point(700, 400), Up)],
      [left |-> Hand(GESTURE_MATCH, Point(310, 400), Up), right |-> NoHand],
      [left |-> Hand(FIST_GESTURE, Point(300, 400), Up),
       right |-> Hand(POINTING_GESTURE, Point(700, 400), Up)]>>[(k % 6) + 1]

\* The hands of frame k in a mode: "sweep" (both thumbs up, the left hand
\* sweeping vertically and the right one horizontally), "left" (only the
\* left hand sweeps), "drift" (both thumbs up, hardly moving), "rest" (no
\* hands), "idle" (no throwing: no hands, then a fist and a pointing
\* finger, then an open palm) and "show" (ShowHands).
ModeHands(m, k) ==
    IF m = "sweep"
    THEN [left |-> Hand(THUMB_UP_GESTURE, Point(500, SweepPos(k)), Up),
          right |-> Hand(THUMB_UP_GESTURE, Point(SweepPos(k), 500), Up)]
    ELSE IF m = "left"
    THEN [left |-> Hand(THUMB_UP_GESTURE, Point(500, SweepPos(k)), Up), right |-> NoHand]
    ELSE IF m = "drift"
    THEN [left |-> Hand(THUMB_UP_GESTURE, Point(DriftPos(k), 500), Up),
          right |-> Hand(THUMB_UP_GESTURE, Point(500, DriftPos(k)), Up)]
    ELSE IF m = "idle" /\ k % 3 = 1
    THEN [left |-> Hand(FIST_GESTURE, Point(300, 400), Up),
          right |-> Hand(POINTING_GESTURE, Point(700, 400), Up)]
    ELSE IF m = "idle" /\ k % 3 = 2
    THEN [left |-> Hand(GESTURE_MATCH, Point(300, 400), Up), right |-> NoHand]
    ELSE IF m = "show"
    THEN ShowHands(k)
    ELSE [left |-> NoHand, right |-> NoHand]

ScriptedFrame(m) ==
    LET h == ModeHands(m, tick + 1)
    IN  processResults(h.left, h.right, FrameMs)

(* Throwing sessions: the user changes mode at most MaxSwitches times in *)
(* ThrowFrames frames.                                                    *)

ThrowModes == {"sweep", "left", "drift", "rest"}

MaxSwitches == 1

ThrowFrames == 24

InitThrow == Loaded /\ mode \in ThrowModes /\ switches = 0 /\ fluidSimulation = WebGL

Stay ==
    /\ tick < ThrowFrames
    /\ ScriptedFrame(mode)
    /\ UNCHANGED <<mode, switches>>

Switch ==
    /\ tick < ThrowFrames
    /\ switches < MaxSwitches
    /\ \E m \in ThrowModes \ {mode} :
          /\ ScriptedFrame(m)
          /\ mode' = m
    /\ switches' = switches + 1

NextThrow == Stay \/ Switch

SpecThrow == InitThrow /\ [][NextThrow]_vars

(* Mixed sessions: in every frame each hand either sweeps with its thumb up, *)
(* shows another gesture at a fixed place, or is not there.                 *)

MixedFrames == 4

MixedLeft(k) ==
    {Hand(THUMB_UP_GESTURE, Point(500, SweepPos(k)), Up),
     Hand(FIST_GESTURE, Point(300, 400), Up),
     NoHand}

MixedRight(k) ==
    {Hand(THUMB_UP_GESTURE, Point(SweepPos(k), 500), Up),
     Hand(GESTURE_MATCH, Point(700, 400), Up),
     NoHand}

InitMixed == Loaded /\ mode = "mixed" /\ switches = 0 /\ fluidSimulation = WebGL

Mixed ==
    /\ tick < MixedFrames
    /\ \E left \in MixedLeft(tick + 1), right \in MixedRight(tick + 1) :
          processResults(left, right, FrameMs)
    /\ UNCHANGED <<mode, switches>>

NextMixed == Mixed

SpecMixed == InitMixed /\ [][NextMixed]_vars

(* Sessions at the edges: for EdgeThrowFrames frames the right hand, thumb *)
(* up, is at one of three places, two of them beside the canvas; then it   *)
(* is gone, up to EdgeFrames frames.                                       *)

EdgeThrowFrames == 6

EdgeFrames == 10

\* Left of the canvas, inside it, and right of it.
EdgePoints == {Point(-100, 500), Point(500, 100), Point(1100, 900)}

InitEdge == Loaded /\ mode = "edge" /\ switches = 0 /\ fluidSimulation = WebGL

AtEdge ==
    /\ tick < EdgeThrowFrames
    /\ \E p \in EdgePoints :
          processResults(NoHand, Hand(THUMB_UP_GESTURE, p, Up), FrameMs)
    /\ UNCHANGED <<mode, switches>>

Gone ==
    /\ tick >= EdgeThrowFrames
    /\ tick < EdgeFrames
    /\ processResults(NoHand, NoHand, FrameMs)
    /\ UNCHANGED <<mode, switches>>

NextEdge == AtEdge \/ Gone

SpecEdge == InitEdge /\ [][NextEdge]_vars

(* Long sessions: the user throws (or not) for ActiveFrames frames and *)
(* idles from then on, up to LifeFrames frames.                        *)

LifeModes == {"sweep", "left", "rest"}

ActiveFrames == 5

LifeFrames == 126

InitLife == Loaded /\ mode = "rest" /\ switches = 0 /\ fluidSimulation = WebGL

Active ==
    /\ tick < ActiveFrames
    /\ \E m \in LifeModes :
          /\ ScriptedFrame(m)
          /\ mode' = m
    /\ UNCHANGED switches

Idling ==
    /\ tick >= ActiveFrames
    /\ tick < LifeFrames
    /\ ScriptedFrame("idle")
    /\ mode' = "idle"
    /\ UNCHANGED switches

NextLife == Active \/ Idling

SpecLife == InitLife /\ [][NextLife]_vars

(* Shows: the user throws (or not) for ShowThrowFrames frames and then shows *)
(* all gestures in turn, up to ShowFrames frames, on a surface with or      *)
(* without createSplat.                                                     *)

ShowThrowFrames == 4

ShowFrames == 16

InitShow == Loaded /\ mode = "rest" /\ switches = 0 /\ fluidSimulation \in {WebGL, Bare}

Throwing ==
    /\ tick < ShowThrowFrames
    /\ \E m \in LifeModes :
          /\ ScriptedFrame(m)
          /\ mode' = m
    /\ UNCHANGED switches

Showing ==
    /\ tick >= ShowThrowFrames
    /\ tick < ShowFrames
    /\ ScriptedFrame("show")
    /\ mode' = "show"
    /\ UNCHANGED switches

NextShow == Throwing \/ Showing

SpecShow == InitShow /\ [][NextShow]_vars

(* Throw detection alone: detectThrowingMotion is applied once to a history *)
(* of up to VELOCITY_HISTORY_SIZE samples.                                  *)

\* Positions 0.16 apart: 0.16 in 20 ms is a speed of exactly 8.
TestPoints == {Point(100, 500), Point(260, 500), Point(260, 660)}

\* Milliseconds between two samples: none, a frame, just inside and just
\* outside the window of detectThrowingMotion.
TestDeltas == {0, 20, 99, 100}

RECURSIVE HistoryOfSteps(_, _, _)
\* The samples at the points of steps, each step[2] ms after the one before;
\* the first follows a sample at time t.
HistoryOfSteps(steps, i, t) ==
    IF i > Len(steps) THEN <<>>
    ELSE <<[x |-> steps[i][1].x, y |-> steps[i][1].y, timestamp |-> t + steps[i][2]]>>
         \o HistoryOfSteps(steps, i + 1, t + steps[i][2])

\* A history of up to VELOCITY_HISTORY_SIZE samples at the test points.
IsTestHistory(h) ==
    \/ h = <<>>
    \/ \E n \in 0..(VELOCITY_HISTORY_SIZE - 1), p \in TestPoints :
          \E steps \in [1..n -> TestPoints \X TestDeltas] :
             h = HistoryOfSteps(<<<<p, 0>>>> \o steps, 1, 0)

InitDetect ==
    /\ now = 0
    /\ IsTestHistory(leftHandHistory)
    /\ rightHandHistory = <<>>
    /\ magicBalls = <<>>
    /\ previousTouches = <<>>
    /\ hands = [left |-> NoHand, right |-> NoHand]
    /\ calls = <<>>
    /\ splats = <<>>
    /\ thumbs = [left |-> Idle(leftHandHistory, <<>>), right |-> Idle(<<>>, <<>>)]
    /\ engine = [before |-> <<>>, advanced |-> <<>>]
    /\ tick = 0
    /\ nextId = 0
    /\ mode = "detect"
    /\ switches = 0
    /\ fluidSimulation = WebGL
    /\ touchRun = [left |-> NoTouchRun, right |-> NoTouchRun]
    /\ probe = <<>>

Detect ==
    /\ tick = 0
    /\ thumbs' = [thumbs EXCEPT !.left.ran = TRUE,
                                !.left.velocity = detectThrowingMotion(leftHandHistory)]
    /\ tick' = 1
    /\ UNCHANGED <<now, leftHandHistory, rightHandHistory, magicBalls, previousTouches,
                   hands, calls, splats, engine, nextId, mode, switches,
                   fluidSimulation, touchRun, probe>>

NextDetect == Detect

SpecDetect == InitDetect /\ [][NextDetect]_vars

(* The throw scenario: one hand is held Thumb_Up for 4 frames, in which it *)
(* moves from (0.2, 0.5) to (0.6, 0.5) within 80 ms.                       *)

\* The x of the two samples in between, and the milliseconds between samples.
ScenarioXs == {200, 335, 400, 470, 600}

ScenarioMs == {10, 26, 27, 35, 44}

\* xs are the x of the 4 samples, ms the times between them (80 ms in all).
Scenarios ==
    {[xs |-> <<200, p, q, 600>>, ms |-> <<d, e, 80 - d - e>>] :
        <<p, q, d, e>> \in {v \in ScenarioXs \X ScenarioXs \X ScenarioMs \X ScenarioMs :
                              v[1] <= v[2] /\ 80 - v[3] - v[4] \in ScenarioMs}}

InitScenario == Loaded /\ mode \in Scenarios /\ switches = 0 /\ fluidSimulation = WebGL

ScenarioFrame ==
    /\ tick < Len(mode.xs)
    /\ processResults(Hand(THUMB_UP_GESTURE, Point(mode.xs[tick + 1], 500), Up), NoHand,
                      IF tick = 0 THEN FrameMs ELSE mode.ms[tick])
    /\ UNCHANGED <<mode, switches>>

NextScenario == ScenarioFrame

SpecScenario == InitScenario /\ [][NextScenario]_vars

(* The coordinate conversions alone: a page point is normalized as the     *)
(* generators and the velocity tracker do, and the result is given to       *)
(* getPageCoords, on canvases of several sizes and pixel ratios.            *)

\* Canvas sizes in device pixels and window.devicePixelRatio (0: not set).
Canvases ==
    {[width |-> 800, height |-> 600, ratio |-> 1],
     [width |-> 1600, height |-> 1200, ratio |-> 2],
     [width |-> 2000, height |-> 2000, ratio |-> 2],
     [width |-> 1000, height |-> 500, ratio |-> 0]}

PageXs == {1, 123, 250, 400, 499, 777}

PageYs == {1, 100, 150, 250, 299}

\* p is strictly inside the canvas c (in CSS pixels).
Interior(p, c) ==
    /\ p.pageX > 0 /\ p.pageX * pixelRatioOf(c.ratio) < c.width
    /\ p.pageY > 0 /\ p.pageY * pixelRatioOf(c.ratio) < c.height

InitRoundTrip == Loaded /\ mode = "convert" /\ switches = 0 /\ fluidSimulation = WebGL

RoundTrip ==
    /\ \E c \in Canvases, X \in PageXs, Y \in PageYs :
          LET p == [pageX |-> X, pageY |-> Y]
              r == pixelRatioOf(c.ratio)
              n == [x |-> normalizedXOn(p.pageX, r, c.width),
                    y |-> normalizedYOn(p.pageY, r, c.height)]
          IN  /\ Interior(p, c)
              /\ probe' = [canvas |-> c, page |-> p, normalized |-> n,
                            back |-> Value(getPageCoordsOn(Some(n), r, c.width, c.height))]
    /\ UNCHANGED <<now, leftHandHistory, rightHandHistory, magicBalls, previousTouches,
                   hands, calls, splats, thumbs, engine, tick, nextId, mode, switches,
                   fluidSimulation, touchRun>>

NextRoundTrip == RoundTrip

SpecRoundTrip == InitRoundTrip /\ [][NextRoundTrip]_vars

-----------------------------------------------------------------------------
(* Properties *)

Sides == {"left", "right"}

HistoryOf(side) == IF side = "left" THEN leftHandHistory ELSE rightHandHistory

Front(s) == SubSeq(s, 1, Len(s) - 1)

Ids(balls) == {balls[i].id : i \in 1..Len(balls)}

\* C1: each hand's velocity history holds at most 5 samples after any frame;
\* a record onto a history of 5 removes the oldest sample and keeps the others
\* in their order of arrival, followed by the new one.
C1_HistoryAtMostFive ==
    \A side \in Sides :
        LET log == thumbs[side]
        IN  /\ Len(HistoryOf(side)) <= 5
            /\ log.ran =>
                  /\ Len(log.recorded) \in 1..5
                  /\ Front(log.recorded) =
                        IF Len(log.before) = 5 THEN Tail(log.before) ELSE log.before

\* A record was made onto a history that already held 5 samples.
C1_Witness == \E side \in Sides : thumbs[side].ran /\ Len(thumbs[side].before) = 5

\* C2: the collection holds at most 10 balls after any frame; a throw onto a
\* collection of 10 removes its first ball, which is the one inserted earliest,
\* and keeps the new ball as the last one.
C2_AtMostTenBalls ==
    /\ Len(magicBalls) <= 10
    /\ \A side \in Sides :
          LET log == thumbs[side]
          IN  IsDefined(log.spawned) =>
                /\ Len(log.ballsAfter) <= 10
                /\ log.ballsAfter =
                      (IF Len(log.ballsBefore) = 10 THEN Tail(log.ballsBefore)
                       ELSE log.ballsBefore) \o <<Value(log.spawned)>>
                /\ \A i \in 2..Len(log.ballsBefore) :
                      log.ballsBefore[1].id < log.ballsBefore[i].id

\* A throw was made onto a collection of 10 balls.
C2_Witness ==
    \E side \in Sides :
        IsDefined(thumbs[side].spawned) /\ Len(thumbs[side].ballsBefore) = 10

\* C3: a ball is constructed with life 120; a pass of the engine lowers the
\* life of every ball by exactly 1 and removes exactly the balls whose life
\* reaches 0; so a ball in the collection has life 120 minus the number of
\* passes since its construction, at least 1, and none is older than 119 passes.
C3_LifeCountsDown ==
    /\ \A side \in Sides :
          IsDefined(thumbs[side].spawned) => Value(thumbs[side].spawned).life = 120
    /\ \A i \in 1..Len(engine.before) :
          LET b == engine.before[i]
          IN  IF b.life = 1
              THEN b.id \notin Ids(magicBalls)
              ELSE \E j \in 1..Len(magicBalls) :
                      magicBalls[j].id = b.id /\ magicBalls[j].life = b.life - 1
    /\ \A j \in 1..Len(magicBalls) :
          /\ magicBalls[j].life >= 1
          /\ magicBalls[j].life = 120 - (tick - magicBalls[j].born + 1)

\* A pass ran on a ball with life 1: the pass in which its life reaches 0.
C3_Witness == \E i \in 1..Len(engine.before) : engine.before[i].life = 1

RECURSIVE SumOver(_, _)
SumOver(f, S) ==
    IF S = {} THEN 0
    ELSE LET i == CHOOSE j \in S : TRUE IN f[i] + SumOver(f, S \ {i})

\* The later indices of the consecutive pairs of h whose time difference is
\* more than 0 and less than 100 ms.
QualifyingPairs(h) ==
    {i \in 2..Len(h) : h[i].timestamp - h[i - 1].timestamp > 0
                       /\ h[i].timestamp - h[i - 1].timestamp < 100}

\* The average of the velocities of the qualifying pairs, if its magnitude
\* is more than 8; none for fewer than 3 samples or no qualifying pair.
ExpectedThrow(h) ==
    LET P == QualifyingPairs(h)
        vx == [i \in P |-> Div((h[i].x - h[i - 1].x) * 1000,
                               h[i].timestamp - h[i - 1].timestamp)]
        vy == [i \in P |-> Div((h[i].y - h[i - 1].y) * 1000,
                               h[i].timestamp - h[i - 1].timestamp)]
        ax == Div(SumOver(vx, P), Cardinality(P))
        ay == Div(SumOver(vy, P), Cardinality(P))
    IN  IF Len(h) < 3 \/ P = {} THEN Undefined
        ELSE IF ax * ax + ay * ay > (8 * Scale) * (8 * Scale)
        THEN Some([vx |-> ax, vy |-> ay])
        ELSE Undefined

\* C4: detectThrowingMotion returns none for fewer than 3 samples; otherwise
\* the average velocity of exactly the pairs with 0 < dt < 100 ms, if and
\* only if its magnitude is more than 8 (none if no pair qualifies).
C4_DetectThrow ==
    thumbs.left.ran => thumbs.left.velocity = ExpectedThrow(thumbs.left.recorded)

\* A throw was detected in a history of which some pair did not qualify.
C4_Witness ==
    /\ thumbs.left.ran
    /\ IsDefined(thumbs.left.velocity)
    /\ Cardinality(QualifyingPairs(thumbs.left.recorded)) < Len(thumbs.left.recorded) - 1

Called(fn, hand) == \E i \in 1..Len(calls) : calls[i] = Call(fn, hand)

\* The touch events forwarded to the surface in the last frame.
TouchCalls == SelectSeq(calls, LAMBDA c : c.hand = "touch")

Shows(side, gesture) == hands[side].gesture = gesture

\* C5: with both hands Pointing_Up the dual-ray generator is invoked and the
\* finger-ray generator for neither hand; with exactly one hand Pointing_Up
\* the finger-ray generator is invoked for that hand and the dual-ray
\* generator is not.
C5_PointingDispatch ==
    LET l == Shows("left", "Pointing_Up")
        r == Shows("right", "Pointing_Up")
        dual == Called("createBothPointingRaysToCenter", "both")
    IN  /\ (l /\ r) => /\ dual
                       /\ ~Called("createFingerRay", "left")
                       /\ ~Called("createFingerRay", "right")
        /\ (l /\ ~r) => Called("createFingerRay", "left") /\ ~dual
        /\ (r /\ ~l) => Called("createFingerRay", "right") /\ ~dual

\* C6: with both hands Open_Palm the glow generator is invoked and no touch
\* event is forwarded.
C6_TwoPalmsGlow ==
    (Shows("left", "Open_Palm") /\ Shows("right", "Open_Palm")) =>
        Called("createBothHandsGlowEffect", "both") /\ TouchCalls = <<>>

\* C7: in a frame with exactly one hand Open_Palm exactly one touch event is
\* forwarded: a touchstart if the previous frame had fewer touch points than
\* this frame, a touchmove otherwise.
C7_OnePalmOneTouchEvent ==
    [][(Shows("left", "Open_Palm") # Shows("right", "Open_Palm"))' =>
          TouchCalls' = <<Call(IF Len(previousTouches) < Len(previousTouches')
                               THEN "sendTouchStart" ELSE "sendTouchMove", "touch")>>]_vars

\* C8: a Thumb_Up hand with landmarks gets exactly one sample appended to its
\* history; if a throw is then detected, exactly one ball is constructed, at
\* the hand's position and with the detected velocity, and the history is
\* empty after the frame; if none is detected, no ball is constructed for
\* the hand and the history is the recorded one.
C8_ThumbUpRecordsAndThrows ==
    \A side \in Sides :
        LET log == thumbs[side]
            hand == hands[side]
        IN  (hand.gesture = "Thumb_Up" /\ IsDefined(hand.landmarks)) =>
              /\ log.ran
              /\ Len(log.recorded) = Min(5, Len(log.before) + 1)
              /\ Front(log.recorded) =
                    SubSeq(log.before, Len(log.before) - Len(log.recorded) + 2, Len(log.before))
              /\ log.recorded[Len(log.recorded)].timestamp = now
              /\ IF IsDefined(log.velocity)
                 THEN /\ IsDefined(log.spawned)
                      /\ LET ball == Value(log.spawned)
                             at == Value(getHandCentroid(hand.landmarks))
                         IN  /\ ball.x = at.x
                             /\ ball.y = Scale - at.y
                             /\ ball.vx = Value(log.velocity).vx
                             /\ ball.vy = Value(log.velocity).vy
                             /\ Ids(log.ballsAfter) \ Ids(log.ballsBefore) = {ball.id}
                             /\ log.ballsAfter[Len(log.ballsAfter)] = ball
                      /\ HistoryOf(side) = <<>>
                 ELSE /\ ~IsDefined(log.spawned)
                      /\ log.ballsAfter = log.ballsBefore
                      /\ HistoryOf(side) = log.recorded

\* In one frame the left hand threw and the right hand, Thumb_Up as well,
\* did not.
C8_Witness ==
    /\ IsDefined(thumbs.left.spawned)
    /\ thumbs.right.ran
    /\ ~IsDefined(thumbs.right.velocity)

\* C9: in every frame the pass of the engine calls update() exactly once on
\* each ball that is in the collection when the pass starts, and each ball
\* left after the pass is one of those, updated once.
C9_EachBallAdvancedOnce ==
    /\ Len(engine.advanced) = Len(engine.before)
    /\ \A i \in 1..Len(engine.before) :
          Cardinality({k \in 1..Len(engine.advanced) :
                         engine.advanced[k] = engine.before[i].id}) = 1
    /\ \A j \in 1..Len(magicBalls) :
          \E i \in 1..Len(engine.before) : magicBalls[j] = update(engine.before[i])

\* A pass removed a ball that was not the last of the collection.
C9_Witness ==
    \E i \in 1..Len(engine.before) : engine.before[i].life = 1 /\ i < Len(engine.before)

\* C10: every createSplat call has its x and its y in [0, 1].
C10_SplatsInUnitSquare ==
    \A i \in 1..Len(splats) :
        /\ splats[i].x >= 0 /\ splats[i].x <= Scale
        /\ splats[i].y >= 0 /\ splats[i].y <= Scale

\* The ball of the collection after the pass that has this id, if any.
After(id) == SelectSeq(magicBalls, LAMBDA b : b.id = id)

\* C11: in a pass in which a ball's integrated x is below 0 or above 1, its x
\* is clamped into [0, 1] and its horizontal velocity changes sign and is
\* multiplied by 0.8; if the integrated x stays in [0, 1] the horizontal
\* velocity is unchanged.
C11_BounceOnCrossing ==
    \A i \in 1..Len(engine.before) :
        LET b == engine.before[i]
            moved == b.x + Div(b.vx * 16, 1000)
        IN  \A j \in 1..Len(After(b.id)) :
                LET a == After(b.id)[j]
                IN  IF moved < 0 \/ moved > Scale
                    THEN /\ a.x = (IF moved < 0 THEN 0 ELSE Scale)
                         /\ a.vx * b.vx < 0
                         /\ Abs(a.vx) = Div(Abs(b.vx) * 8, 10)
                    ELSE /\ a.x = moved
                         /\ a.vx = b.vx

\* A ball that had bounced off the right edge crossed the left edge.
C11_Witness ==
    \E i \in 1..Len(engine.before) :
        /\ engine.before[i].x + Div(engine.before[i].vx * 16, 1000) < 0
        /\ After(engine.before[i].id) # <<>>

\* The hand of a scenario moves at 5 units per second between all samples.
Steady(m) == \A k \in 1..Len(m.ms) : (m.xs[k + 1] - m.xs[k]) * 1000 = 5000 * m.ms[k]

\* C12 as stated: when the 4 samples that move from (0.2, 0.5) to (0.6, 0.5)
\* in 80 ms have been recorded, a throw has been triggered, and the history
\* is empty right after a throw.
C12_ScenarioThrows ==
    /\ tick = 4 => nextId >= 1
    /\ IsDefined(thumbs.left.spawned) => leftHandHistory = <<>>

\* C12 amended: in such a run a throw is triggered by a sample if and only
\* if the average of the velocities between the recorded samples is above 8,
\* and the history is empty right after it; a hand that moves steadily (5
\* units per second) triggers no throw and its history holds the 4 samples.
C12_ScenarioThrowsOnlyIfFast ==
    /\ thumbs.left.ran =>
          /\ IsDefined(thumbs.left.spawned) <=> IsDefined(ExpectedThrow(thumbs.left.recorded))
          /\ IsDefined(thumbs.left.spawned) => leftHandHistory = <<>>
    /\ (tick = 4 /\ Steady(mode)) => nextId = 0 /\ Len(leftHandHistory) = 4

\* The 4 samples of a steadily moving hand have been recorded.
C12_Witness == tick = 4 /\ Steady(mode) /\ Len(leftHandHistory) = 4

\* Equal up to the rounding of one conversion.
Near(a, b) == Abs(a - b) <= 1

\* C13 as stated: a page point inside the canvas, normalized and given to
\* getPageCoords, comes back as itself in x and in y.
C13_RoundTrip ==
    probe # <<>> =>
        /\ Near(probe.back.pageX, probe.page.pageX)
        /\ Near(probe.back.pageY, probe.page.pageY)

\* C13 amended: it comes back with its x, and with its y mirrored in the
\* canvas: pageY becomes (canvas height / pixel ratio) - pageY.
C13_RoundTripMirrorsY ==
    probe # <<>> =>
        /\ Near(probe.back.pageX, probe.page.pageX)
        /\ Near(probe.back.pageY,
                Div(probe.canvas.height, pixelRatioOf(probe.canvas.ratio)) - probe.page.pageY)

\* A point away from the horizontal midline of its canvas was converted.
C13_Witness ==
    /\ probe # <<>>
    /\ 4 * probe.page.pageY * pixelRatioOf(probe.canvas.ratio) < probe.canvas.height

\* C14: in a frame, the sample of a Thumb_Up hand is recorded before the
\* throw detection runs (the detection's result is that of the history with
\* the frame's sample as its last one), and a ball constructed by a throw is
\* in the collection, with the hand's history cleared, before the pass of the
\* engine in that frame: after the frame the ball has life 119.
C14_RecordDetectThenAdvance ==
    \A side \in Sides :
        LET log == thumbs[side]
        IN  /\ log.ran =>
                  /\ log.recorded[Len(log.recorded)].timestamp = now
                  /\ log.velocity = ExpectedThrow(log.recorded)
            /\ IsDefined(log.spawned) =>
                  /\ HistoryOf(side) = <<>>
                  /\ \E i \in 1..Len(engine.before) :
                        engine.before[i] = Value(log.spawned)
                  /\ Len(After(Value(log.spawned).id)) = 1
                  /\ After(Value(log.spawned).id)[1].life = 119

\* A throw was detected with the frame's sample as the third of the history.
C14_Witness ==
    \E side \in Sides : IsDefined(thumbs[side].spawned) /\ Len(thumbs[side].before) = 2

\* The finger-ray generator was given this hand with its fingertip on the
\* base of the finger.
ZeroLengthRay(side) ==
    /\ Called("createFingerRay", side)
    /\ Value(hands[side].landmarks).INDEX_FINGER_TIP =
          Value(hands[side].landmarks).INDEX_FINGER_MCP

SplatsBy(fn) == SelectSeq(splats, LAMBDA c : c.by = fn)

Other(side) == IF side = "left" THEN "right" ELSE "left"

\* C15: when the finger-ray generator is given a direction of zero length it
\* emits no impulse, and the rest of the frame runs: the other hand's fist or
\* palm has its effect, every ball is advanced by the engine, and the touches
\* of the frame become the previous touches.
C15_ZeroLengthRayEmitsNothing ==
    \A side \in Sides :
        ZeroLengthRay(side) =>
            /\ SplatsBy("createFingerRay") = <<>>
            /\ Shows(Other(side), "Closed_Fist") =>
                  /\ Called("createWigglyBall", Other(side))
                  /\ fluidSimulation.createSplat => Len(SplatsBy("createWigglyBall")) = 6
            /\ Shows(Other(side), "Open_Palm") =>
                  /\ Len(TouchCalls) = 1
                  /\ Len(previousTouches) = 1
            /\ ~Shows(Other(side), "Open_Palm") => previousTouches = <<>>
            /\ Len(engine.advanced) = Len(engine.before)
            /\ \A i \in 1..Len(engine.before) :
                  /\ Len(After(engine.before[i].id)) = 1
                  /\ After(engine.before[i].id)[1].life = engine.before[i].life - 1

\* A finger ray of zero length was asked for while the other hand made a
\* fist and balls were in flight, on a surface with createSplat.
C15_Witness ==
    /\ ZeroLengthRay("left")
    /\ Called("createWigglyBall", "right")
    /\ engine.before # <<>>
    /\ fluidSimulation.createSplat

\* C16: a frame on a surface without createSplat completes, and leaves both
\* histories, the collection of balls and the previous touches as the same
\* frame does on a surface with createSplat.
C16_SameStateWithoutCreateSplat ==
    [][tick' = tick + 1 =>
          LET full == FrameOutcome(hands'.left, hands'.right, now', WebGL)
          IN  /\ leftHandHistory' = full.leftHandHistory
              /\ rightHandHistory' = full.rightHandHistory
              /\ magicBalls' = full.magicBalls
              /\ previousTouches' = full.previousTouches
              /\ Len(engine'.advanced) = Len(engine'.before)
              /\ calls' = full.calls]_vars

\* On a surface without createSplat a frame ran a generator while balls were
\* in flight, and no impulse was made.
C16_Witness ==
    /\ ~fluidSimulation.createSplat
    /\ Called("createWigglyBall", "right")
    /\ \E i \in 1..Len(magicBalls) : InBounds(magicBalls[i].x, magicBalls[i].y)
    /\ splats = <<>>

\* The impulses of the wiggly ball of a hand that makes a fist, from that
\* hand's landmarks and the time alone.
WigglyOf(side) ==
    IF Shows(side, "Closed_Fist")
    THEN createWigglyBall(Value(getPageCoords(getHandCentroid(hands[side].landmarks))),
                          side = "left", now)
    ELSE <<>>

\* C17: the wiggly ball is invoked for every hand that makes a fist, with the
\* same impulses whatever the other hand shows; and a frame with a left fist
\* and a right pointing finger invokes the wiggly ball for the left hand and
\* the finger ray for the right hand.
C17_IndependentDispatch ==
    /\ \A side \in Sides :
          Shows(side, "Closed_Fist") => Called("createWigglyBall", side)
    /\ SplatsBy("createWigglyBall") = WigglyOf("left") \o WigglyOf("right")
    /\ (Shows("left", "Closed_Fist") /\ Shows("right", "Pointing_Up")) =>
          Called("createWigglyBall", "left") /\ Called("createFingerRay", "right")

\* C18: in the simulation's space, where y = 0 is the bottom, a pass lowers
\* the vertical velocity of every ball that survives it by one fixed amount
\* (0.5), which is what makes a ball thrown with vy = 0 sink toward y = 0.
C18_GravityPullsDown ==
    \A i \in 1..Len(engine.before) :
        LET b == engine.before[i]
        IN  \A j \in 1..Len(After(b.id)) :
                LET a == After(b.id)[j]
                IN  /\ a.vy < b.vy
                    /\ b.vy - a.vy = Div(5 * Scale, 10)

\* The three points of a ball's trail: 0.01 from the ball at 0, 1/3 and 2/3 of
\* a turn.
Offsets(ball) ==
    {[x |-> ball.x + 10, y |-> ball.y],
     [x |-> ball.x - 5, y |-> ball.y + 8],
     [x |-> ball.x - 5, y |-> ball.y - 8]}

InUnitSquare(p) == p.x >= 0 /\ p.x <= Scale /\ p.y >= 0 /\ p.y <= Scale

\* C19: in every pass, each ball that survives it (life above 0 after the
\* decrement) emits one trail impulse for each of its three offset points that
\* lies in [0,1]x[0,1] and none for a point outside; a ball removed in the
\* pass emits none; a ball whose points are all outside stays in the
\* collection, one unit of life lower.
C19_TrailOfSurvivors ==
    LET trail == SplatsBy("createFluidEffect")
        emitted == {[x |-> trail[k].x, y |-> trail[k].y] : k \in 1..Len(trail)}
        survivors == {j \in 1..Len(magicBalls) : magicBalls[j].life > 0}
        due == {<<j, p>> \in survivors \X UNION {Offsets(magicBalls[j]) : j \in survivors} :
                  p \in Offsets(magicBalls[j]) /\ InUnitSquare(p)}
    IN  /\ survivors = 1..Len(magicBalls)
        /\ Len(trail) = Cardinality(due)
        /\ \A d \in due : d[2] \in emitted
        /\ \A e \in emitted : InUnitSquare(e) /\ \E d \in due : d[2] = e
        /\ \A i \in 1..Len(engine.before) :
              LET b == engine.before[i]
              IN  IF b.life > 1
                  THEN /\ Len(After(b.id)) = 1
                       /\ After(b.id)[1].life = b.life - 1
                  ELSE After(b.id) = <<>>

\* A pass after which one ball has a trail point inside the square and one
\* outside it, while another ball, all of whose points are outside, is still
\* in the collection after more than one pass.
C19_Witness ==
    /\ \E j \in 1..Len(magicBalls) :
          \E p, q \in Offsets(magicBalls[j]) : InUnitSquare(p) /\ ~InUnitSquare(q)
    /\ \E j \in 1..Len(magicBalls) :
          /\ magicBalls[j].life < maxLife - 1
          /\ \A p \in Offsets(magicBalls[j]) : ~InUnitSquare(p)

\* C20: a hand that has thrown cannot throw again until three further samples
\* of it have been recorded. A throw leaves the hand's history empty; a frame
\* adds at most one sample to it, and none when the hand does not show
\* Thumb_Up; and a frame spawns a ball for the hand only if the history held
\* at least two samples when the frame began. So neither of the two Thumb_Up
\* frames that follow a throw spawns a ball, whatever the motion.
C20_NoRethrowWithinThreeSamples ==
    [][tick' = tick + 1 =>
         \A side \in Sides :
             /\ IsDefined(thumbs'[side].spawned) =>
                    /\ Len(HistoryOf(side)) >= 2
                    /\ HistoryOf(side)' = <<>>
             /\ Len(HistoryOf(side)') <= Len(HistoryOf(side)) + 1
             /\ ~thumbs'[side].ran => HistoryOf(side)' = HistoryOf(side)
             /\ thumbs'[side].before = HistoryOf(side)]_vars

\* The second Thumb_Up frame after a throw of the left hand (the ball thrown
\* two frames ago from x = 0.5 with no horizontal velocity is the left
\* hand's): the hand has moved 0.8 in one frame and no ball is spawned.
C20_Witness ==
    /\ \E j \in 1..Len(magicBalls) :
          /\ magicBalls[j].born = tick - 2
          /\ magicBalls[j].vx = 0
          /\ magicBalls[j].x = Div(Scale, 2)
    /\ thumbs.left.ran
    /\ Len(thumbs.left.before) = 1
    /\ thumbs.left.before[1].timestamp = now - FrameMs
    /\ Abs(thumbs.left.recorded[2].y - thumbs.left.recorded[1].y) >= 8 * Div(Scale, 10)
    /\ ~IsDefined(thumbs.left.spawned)

\* The touch points of the frame carry this hand's identifier.
Touching(side) ==
    \E i \in 1..Len(previousTouches) :
        previousTouches[i].identifier =
            (IF side = "left" THEN LEFT_HAND_EVENT_ID ELSE RIGHT_HAND_EVENT_ID)

\* The hand has an effect in the frame: the generator or the touch point of
\* its gesture.
Dispatched(side) ==
    \/ Shows(side, "Closed_Fist") /\ Called("createWigglyBall", side)
    \/ Shows(side, "Pointing_Up")
          /\ (Called("createFingerRay", side)
                \/ Called("createBothPointingRaysToCenter", "both"))
    \/ Shows(side, "Open_Palm")
          /\ Touching(side)
          /\ (Called("createBothHandsGlowEffect", "both") \/ TouchCalls # <<>>)

\* C21: a hand that makes a fist, points or shows its palm is dispatched to
\* its effect whenever it has landmarks, also when its anchor has page
\* coordinate 0 on an axis; only a hand without landmarks has no effect.
C21_ZeroIsNotAbsent ==
    \A side \in Sides :
        (Shows(side, "Closed_Fist") \/ Shows(side, "Pointing_Up") \/ Shows(side, "Open_Palm"))
            => (Dispatched(side) <=> IsDefined(hands[side].landmarks))

\* C22: a touchmove carrying a hand's identifier is forwarded only if a
\* touchstart carrying that identifier was forwarded earlier in the hand's
\* current unbroken run of Open_Palm frames, whatever the frame before was
\* (a glow frame of both hands, or a frame with only the other palm).
C22_MoveOnlyAfterStart ==
    \A side \in Sides :
        (TouchCalls = <<Call("sendTouchMove", "touch")>> /\ Touching(side))
            => touchRun[side].started

\* C23: sendTouchEnd is never invoked: every touch event forwarded is a
\* touchstart or a touchmove, and a frame in which a hand has stopped showing
\* its palm (another gesture, or no hand) forwards no touchend.
C23_NoTouchEnd ==
    /\ \A i \in 1..Len(calls) :
          /\ calls[i].fn # "sendTouchEnd"
          /\ calls[i].hand = "touch" => calls[i].fn \in {"sendTouchStart", "sendTouchMove"}
    /\ \A side \in Sides :
          touchRun[side].ended => ~Called("sendTouchEnd", "touch")

\* The left hand has stopped showing its palm after a touchstart for it, and
\* the frame forwards an event for the right palm.
C23_Witness ==
    /\ touchRun.left.ended
    /\ Touching("right")
    /\ TouchCalls # <<>>

\* The sample of a hand at time t appended to a history, the oldest sample
\* dropped beyond five.
Recorded(history, hand, t) ==
    LET centroid == Value(getHandCentroid(hand.landmarks))
        sample == [x |-> centroid.x, y |-> Scale - centroid.y, timestamp |-> t]
        all == Append(history, sample)
    IN  IF Len(all) > 5 THEN SubSeq(all, Len(all) - 4, Len(all)) ELSE all

\* C24: a frame in which a hand does not show Thumb_Up (another gesture, or
\* no hand) leaves the hand's velocity history as it was; and a frame in
\* which it does leaves either the history with the hand's own sample
\* appended or, after a throw, the empty history, whatever the other hand
\* does in the frame.
C24_HistoriesAreSeparate ==
    [][tick' = tick + 1 =>
         \A side \in Sides :
             IF hands'[side].gesture = "Thumb_Up" /\ IsDefined(hands'[side].landmarks)
             THEN \/ HistoryOf(side)' = Recorded(HistoryOf(side), hands'[side], now')
                  \/ HistoryOf(side)' = <<>> /\ IsDefined(thumbs'[side].spawned)
             ELSE HistoryOf(side)' = HistoryOf(side)]_vars

\* The right hand has thrown, which cleared its history, in a frame in which
\* the left hand makes a fist and keeps the samples recorded earlier.
C24_Witness ==
    /\ IsDefined(thumbs.right.spawned)
    /\ rightHandHistory = <<>>
    /\ Shows("left", "Closed_Fist")
    /\ leftHandHistory # <<>>

\* C25: after every frame every ball of the collection has its x in [0, 1],
\* wherever it was constructed and whatever its horizontal velocity. (Its y
\* is not kept in any range.)
C25_BallsBetweenTheEdges ==
    \A j \in 1..Len(magicBalls) : magicBalls[j].x >= 0 /\ magicBalls[j].x <= Scale

\* A ball was constructed beside the canvas in the frame, while another ball
\* of the collection is above or below the unit square.
C25_Witness ==
    /\ IsDefined(thumbs.right.spawned)
    /\ (Value(thumbs.right.spawned).x < 0 \/ Value(thumbs.right.spawned).x > Scale)
    /\ Len(After(Value(thumbs.right.spawned).id)) = 1
    /\ \E j \in 1..Len(magicBalls) : magicBalls[j].y < 0 \/ magicBalls[j].y > Scale

=============================================================================
